---- MODULE Spec2Model ----
(***************************************************************************)
(* Model of AutonomousAgent (src/next/src/services/agent/                  *)
(* autonomous-agent.ts): the run() control loop, the runWork retry         *)
(* executor, the deferred conclusion slot, the completed-task counter and  *)
(* the one-shot entry points summarize() and chat().                       *)
(*                                                                         *)
(* Scheduling.  JavaScript runs every callback to completion, so each      *)
(* action below is the code between two suspension points on an external   *)
(* operation: work.run(), work.conclude(), the stored conclusion and the   *)
(* backoff timer.  The continuation that follows the settlement of         *)
(* withRetries (lines 148-150 and on) is a promise reaction: it runs       *)
(* before any timer, I/O completion or user call, which is what the guard  *)
(* Quiescent states.  One activation of run() exists at a time (run()      *)
(* leaves lifecycle at paused or stopped, and it is called again from      *)
(* there); chat() tests for lifecycle "running", which only holds while    *)
(* run() or summarize() is suspended, so a one-shot operation may overlap  *)
(* run().  pauseAgent() and stopAgent() may be called at any time.         *)
(***************************************************************************)
EXTENDS Naturals, Sequences, FiniteSets

(* Bounds of the model *)
MaxItems == 3
MaxFails == 1
MaxLoops == 2

(* customMaxLoops*2 *)
ScaleFactor == 2

VARIABLES
  lifecycle,        \* model.getLifecycle() / model.setLifecycle()
  workLog,          \* this.workLog
  lastConclusion,   \* this.lastConclusion: id of the item whose conclude is stored, 0 = undefined
  completedTasks,   \* this.completedTasks
  customMaxLoops,   \* agent.agent.modelSettings.customMaxLoops
  isAgentThinking,  \* useAgentStore.getState().isAgentThinking
  pcRun,            \* where run() is suspended: idle, replay, run, backoff, settled, conclude
  work,             \* run(): const work
  pcOne,            \* where summarize()/chat() is suspended
  oneKind,          \* which one-shot operation is active
  oneWork,          \* summarizeWork / chatWork
  paused,           \* chat(): let paused
  nextId,           \* number of the next work item to be constructed
  tries,            \* per activation: calls of work.run() made by the current runWork
  failed,           \* per activation: retryable errors raised in the current runWork
  raised,           \* per activation: the error the last work.run() raised, if it has
  hookSaid,         \* per activation: what work.onError?.(e) returned for that error
  how,              \* per activation: how withRetries returned
  concludes,        \* per item: calls of work.conclude()
  started,          \* the Work Log items in the order run() called runWork for them
  checkedTask,      \* work.task read by the end-of-iteration check of the last step
  observed,         \* lifecycle read by the loop-boundary check of the last step
  sent,             \* messageService.sendCompletedMessage() was called by the last step
  disturbed,        \* "signalled" once pauseAgent/stopAgent/summarize/chat was called,
                    \* "fatal" once a work.run() raised a non-retryable error, else "calm"
  op                \* the operation that took the last step

vars == <<lifecycle, workLog, lastConclusion, completedTasks, customMaxLoops,
          isAgentThinking, pcRun, work, pcOne, oneKind, oneWork, paused, nextId,
          tries, failed, raised, hookSaid, how, concludes, started, checkedTask,
          observed, sent, disturbed, op>>

Ids == 1..MaxItems

NoWork == [id |-> 0, kind |-> "none"]

NoTask == [status |-> "undefined", result |-> ""]

(* work.task as line 81 finds it *)
Tasks ==
  {NoTask, [status |-> "executing", result |-> ""],
   [status |-> "completed", result |-> ""], [status |-> "completed", result |-> "text"]}

(* no end-of-iteration check in this step *)
Unread == [status |-> "unread", result |-> ""]

(* what work.run() does: it returns, or raises an error of one of two classes *)
Outcomes == {"ok", "retryable", "fatal"}

(* what work.onError?.(e) evaluates to: undefined when the item has no hook *)
HookResults == {"undefined", "true", "false"}

NewWork(id, kind) == [id |-> id, kind |-> kind]

(* the state as one record, so that the code of a step is a composition *)
Cur ==
  [lifecycle |-> lifecycle, workLog |-> workLog, lastConclusion |-> lastConclusion,
   completedTasks |-> completedTasks, isAgentThinking |-> isAgentThinking,
   pcRun |-> pcRun, work |-> work, pcOne |-> pcOne,
   oneKind |-> oneKind, oneWork |-> oneWork, paused |-> paused,
   nextId |-> nextId, tries |-> tries, failed |-> failed, raised |-> raised,
   hookSaid |-> hookSaid,
   how |-> how, concludes |-> concludes, started |-> started,
   checkedTask |-> Unread, observed |-> "none", sent |-> FALSE,
   disturbed |-> disturbed]

Commit(s, name) ==
  /\ lifecycle' = s.lifecycle
  /\ workLog' = s.workLog
  /\ lastConclusion' = s.lastConclusion
  /\ completedTasks' = s.completedTasks
  /\ isAgentThinking' = s.isAgentThinking
  /\ pcRun' = s.pcRun
  /\ work' = s.work
  /\ pcOne' = s.pcOne
  /\ oneKind' = s.oneKind
  /\ oneWork' = s.oneWork
  /\ paused' = s.paused
  /\ nextId' = s.nextId
  /\ tries' = s.tries
  /\ failed' = s.failed
  /\ raised' = s.raised
  /\ hookSaid' = s.hookSaid
  /\ how' = s.how
  /\ concludes' = s.concludes
  /\ started' = s.started
  /\ checkedTask' = s.checkedTask
  /\ observed' = s.observed
  /\ sent' = s.sent
  /\ disturbed' = s.disturbed
  /\ op' = name
  /\ UNCHANGED customMaxLoops

(***************************************************************************)
(* Collaborators                                                           *)
(***************************************************************************)

(* isRetryableError(e): the classifier partitions errors into retryable and fatal *)
isRetryableError(e) == e = "retryable"

Truthy(v) == v = "true"

(* JavaScript a || b *)
JsOr(a, b) == IF Truthy(a) THEN a ELSE b

(* task.status === "completed" && task.result !== "" for a defined task *)
CountsAsCompleted(task) ==
  /\ task.status # "undefined"
  /\ task.status = "completed"
  /\ task.result # ""

(***************************************************************************)
(* The two activations: "run" is run(), "one" is summarize() or chat()     *)
(***************************************************************************)
Pc(p) == IF p = "run" THEN "pcRun" ELSE "pcOne"

Wk(p) == IF p = "run" THEN "work" ELSE "oneWork"

(* a promise reaction is pending: it runs before any other event *)
Quiescent == pcRun # "settled" /\ pcOne # "settled"

stopAgent(s) == [s EXCEPT !.lifecycle = "stopped"]

pauseAgentOn(s) == [s EXCEPT !.lifecycle = "pausing"]

(* a stop predicate that never stops *)
shouldStopNever(s, p) == FALSE

(* a stop predicate that gives up on every lifecycle but running *)
shouldStopNotRunning(s, p) == p = "run" /\ s.lifecycle # "running"

(* run() passes () => lifecycle === "stopped"; the default is () => false *)
shouldStop(s, p) == p = "run" /\ s.lifecycle = "stopped"

(* withRetries returns, and with it runWork's await *)
Settle(s, p, why) == [s EXCEPT ![Pc(p)] = "settled", !.how[p] = why]

(* the action given to withRetries: if (shouldStop()) return; await work.run() *)
fn(s, p) ==
  IF shouldStop(s, p)
    THEN Settle(s, p, "skipped")
    ELSE [s EXCEPT ![Pc(p)] = "run", !.tries[p] = @ + 1, !.raised[p] = "none",
                   !.hookSaid[p] = "none"]

(* withRetries after the error handler answered: stop on false, else call fn again *)
withRetries(s, p, verdict) ==
  IF verdict = "false" THEN Settle(s, p, "refused") ELSE fn(s, p)

(* const shouldRetry = work.onError?.(e) || true *)
shouldRetry(h) == JsOr(h, "true")

(* the handler with the retry decided before the classification *)
onErrorRetryFirst(s, p, e) ==
  IF Truthy(shouldRetry(s.hookSaid[p]))
    THEN [s EXCEPT !.isAgentThinking = TRUE, ![Pc(p)] = "backoff",
                   !.failed[p] = IF isRetryableError(e) THEN @ + 1 ELSE @]
    ELSE Settle(stopAgent(s), p, "fatal")

(* the error handler of runWork up to its await or its return *)
onError(s, p, e) ==
  IF ~isRetryableError(e)
    THEN Settle(stopAgent([s EXCEPT !.disturbed = IF @ = "calm" THEN "fatal" ELSE @]),
                p, "fatal")
    ELSE IF Truthy(shouldRetry(s.hookSaid[p]))
      THEN [s EXCEPT !.isAgentThinking = TRUE, ![Pc(p)] = "backoff",
                     !.failed[p] = @ + 1]
      ELSE withRetries([s EXCEPT !.failed[p] = @ + 1], p, shouldRetry(s.hookSaid[p]))

(* work.run() settled with e; h is what the item's hook answers to an error *)
runSettled(s, p, e, h) ==
  IF e = "ok"
    THEN Settle(s, p, "ok")
    ELSE onError([s EXCEPT !.raised[p] = e, !.hookSaid[p] = h], p, e)

(* the backoff timer fired: the handler returns shouldRetry *)
backoffDone(s, p) == withRetries(s, p, shouldRetry(s.hookSaid[p]))

(* runWork(work, shouldStop) up to the first await *)
runWork(s, p) ==
  fn([s EXCEPT !.tries[p] = 0, !.failed[p] = 0, !.how[p] = "none",
               !.started = IF p = "run" THEN Append(@, s.work) ELSE @], p)

(* useAgentStore.getState().setIsAgentThinking(false), and runWork returns *)
runWorkEnd(s, p) ==
  [s EXCEPT !.isAgentThinking = FALSE, !.tries[p] = 0, !.failed[p] = 0,
            !.raised[p] = "none", !.hookSaid[p] = "none", !.how[p] = "none"]

(***************************************************************************)
(* run()                                                                   *)
(***************************************************************************)
(* the re-seeding without its test of the Work Log *)
addTasksAlways(s, hasTask) ==
  IF hasTask
    THEN [s EXCEPT !.workLog = Append(@, NewWork(s.nextId, "analyze")),
                   !.nextId = @ + 1]
    ELSE s

addTasksIfWorklogEmpty(s, hasTask) ==
  IF Len(s.workLog) > 0
    THEN s
    ELSE IF hasTask
      THEN [s EXCEPT !.workLog = Append(@, NewWork(s.nextId, "analyze")),
                     !.nextId = @ + 1]
      ELSE s

Return(s) == [s EXCEPT !.pcRun = "idle", !.work = NoWork]

(* the boundary check without the resolution of pausing *)
resolvePausingDropped(s) == [s EXCEPT !.observed = s.lifecycle]

(* if (lifecycle === "pausing") setLifecycle("paused") *)
resolvePausing(s) ==
  [s EXCEPT !.lifecycle = IF @ = "pausing" THEN "paused" ELSE @,
            !.observed = s.lifecycle]

(* the exit of run() announcing completion whatever the lifecycle *)
LoopTopAlwaysSends(s) ==
  IF s.workLog # << >>
    THEN IF resolvePausing(s).lifecycle # "running"
      THEN Return(resolvePausing(s))
      ELSE runWork([resolvePausing(s) EXCEPT !.work = Head(s.workLog)], "run")
    ELSE Return(stopAgent([resolvePausing(s) EXCEPT !.sent = TRUE]))

(* the exit of run() announcing completion without stopping the agent *)
LoopTopNoStop(s) ==
  IF s.workLog # << >>
    THEN IF resolvePausing(s).lifecycle # "running"
      THEN Return(resolvePausing(s))
      ELSE runWork([resolvePausing(s) EXCEPT !.work = Head(s.workLog)], "run")
    ELSE IF resolvePausing(s).lifecycle # "running"
      THEN Return(resolvePausing(s))
      ELSE Return([resolvePausing(s) EXCEPT !.sent = TRUE])

(* the loop without its check of the lifecycle *)
LoopTopUnchecked(s) ==
  IF s.workLog # << >>
    THEN runWork([resolvePausing(s) EXCEPT !.work = Head(s.workLog)], "run")
    ELSE Return(resolvePausing(s))

(* the while condition, the boundary check and the call of runWork; the exit of run() *)
LoopTop(s) ==
  IF s.workLog # << >>
    THEN IF resolvePausing(s).lifecycle # "running"
      THEN Return(resolvePausing(s))
      ELSE runWork([resolvePausing(s) EXCEPT !.work = Head(s.workLog)], "run")
    ELSE IF resolvePausing(s).lifecycle # "running"
      THEN Return(resolvePausing(s))
      ELSE Return(stopAgent([resolvePausing(s) EXCEPT !.sent = TRUE]))

(* the head left in the Work Log *)
ShiftNone(wl) == wl

(* this.workLog.shift() *)
Shift(wl) == IF wl = << >> THEN wl ELSE Tail(wl)

(* the ceiling compared with > *)
ceilingPassed(n, k) == n > k * ScaleFactor

(* this.completedTasks >= agent.agent.modelSettings.customMaxLoops*2 *)
ceilingReached(n, k) == n >= k * ScaleFactor

(* the iteration's end with the item of next() constructed and not appended *)
EndOfIterationNextLost(s, task, nxt, hasTask) ==
  LET s1 == [s EXCEPT !.completedTasks = IF CountsAsCompleted(task) THEN @ + 1 ELSE @,
                      !.checkedTask = task]
      s2 == IF ceilingReached(s1.completedTasks, customMaxLoops) THEN stopAgent(s1) ELSE s1
      s3 == IF nxt THEN [s2 EXCEPT !.nextId = @ + 1] ELSE s2
  IN LoopTop(addTasksIfWorklogEmpty(s3, hasTask))

(* the iteration's end with the counter started afresh at the ceiling *)
EndOfIterationResets(s, task, nxt, hasTask) ==
  LET s1 == [s EXCEPT !.completedTasks = IF CountsAsCompleted(task) THEN @ + 1 ELSE @,
                      !.checkedTask = task]
      s2 == IF ceilingReached(s1.completedTasks, customMaxLoops)
              THEN stopAgent([s1 EXCEPT !.completedTasks = 0])
              ELSE s1
      s3 == IF nxt
              THEN [s2 EXCEPT !.workLog = Append(@, NewWork(s2.nextId, "next")),
                              !.nextId = @ + 1]
              ELSE s2
  IN LoopTop(addTasksIfWorklogEmpty(s3, hasTask))

(* the counter, the ceiling, next() and the re-seeding, then the loop again *)
EndOfIteration(s, task, nxt, hasTask) ==
  LET s1 == [s EXCEPT !.completedTasks = IF CountsAsCompleted(task) THEN @ + 1 ELSE @,
                      !.checkedTask = task]
      s2 == IF ceilingReached(s1.completedTasks, customMaxLoops) THEN stopAgent(s1) ELSE s1
      s3 == IF nxt
              THEN [s2 EXCEPT !.workLog = Append(@, NewWork(s2.nextId, "next")),
                              !.nextId = @ + 1]
              ELSE s2
  IN LoopTop(addTasksIfWorklogEmpty(s3, hasTask))

(* the conclusion stored only when the agent was stopped *)
AfterRunWorkStoppedOnly(s, task, nxt, hasTask) ==
  LET s1 == [runWorkEnd(s, "run") EXCEPT !.workLog = Shift(@)]
  IN IF s1.lifecycle = "stopped"
       THEN EndOfIteration([s1 EXCEPT !.lastConclusion = s.work.id], task, nxt, hasTask)
       ELSE [s1 EXCEPT !.concludes[s.work.id] = @ + 1, !.pcRun = "conclude"]

(* after runWork: shift, then conclude now or store the conclusion *)
AfterRunWork(s, task, nxt, hasTask) ==
  LET s1 == [runWorkEnd(s, "run") EXCEPT !.workLog = Shift(@)]
  IN IF s1.lifecycle # "running"
       THEN EndOfIteration([s1 EXCEPT !.lastConclusion = s.work.id], task, nxt, hasTask)
       ELSE [s1 EXCEPT !.concludes[s.work.id] = @ + 1, !.pcRun = "conclude"]

(* the stored conclusion kept after its replay *)
keepConclusion(s) == s

(* this.lastConclusion = undefined *)
clearConclusion(s) == [s EXCEPT !.lastConclusion = 0]

(* the inputs of one step of run(): they construct at most one item *)
Fresh(nxt, hasTask) == (nxt \/ hasTask) => nextId <= MaxItems

(* the errors of one runWork that the model follows *)
Bounded(p, e) == e = "retryable" => failed[p] < MaxFails

RunStart ==
  /\ pcRun = "idle"
  /\ Quiescent
  /\ \E hasTask \in BOOLEAN :
       /\ Fresh(FALSE, hasTask)
       /\ LET s == [Cur EXCEPT !.lifecycle = "running"]
          IN IF s.lastConclusion # 0
               THEN Commit([s EXCEPT !.concludes[s.lastConclusion] = @ + 1,
                                     !.pcRun = "replay"], "run")
               ELSE Commit(LoopTop(addTasksIfWorklogEmpty(s, hasTask)), "run")

ReplayDone ==
  /\ pcRun = "replay"
  /\ Quiescent
  /\ \E hasTask \in BOOLEAN :
       /\ Fresh(FALSE, hasTask)
       /\ Commit(LoopTop(addTasksIfWorklogEmpty(clearConclusion(Cur), hasTask)), "replayed")

WorkSettles ==
  /\ pcRun = "run"
  /\ Quiescent
  /\ \E e \in Outcomes, h \in HookResults :
       /\ Bounded("run", e)
       /\ Commit(runSettled(Cur, "run", e, h), "settle")

BackoffDone ==
  /\ pcRun = "backoff"
  /\ Quiescent
  /\ Commit(backoffDone(Cur, "run"), "retry")

RunWorkReturns ==
  /\ pcRun = "settled"
  /\ \E task \in Tasks, nxt \in BOOLEAN, hasTask \in BOOLEAN :
       /\ Fresh(nxt, hasTask)
       /\ Commit(AfterRunWork(Cur, task, nxt, hasTask), "iterate")

ConcludeDone ==
  /\ pcRun = "conclude"
  /\ Quiescent
  /\ \E task \in Tasks, nxt \in BOOLEAN, hasTask \in BOOLEAN :
       /\ Fresh(nxt, hasTask)
       /\ Commit(EndOfIteration(Cur, task, nxt, hasTask), "concluded")

(***************************************************************************)
(* pauseAgent(), stopAgent(), summarize(), chat()                          *)
(***************************************************************************)
PauseAgent ==
  /\ Quiescent
  /\ Commit([pauseAgentOn(Cur) EXCEPT !.disturbed = "signalled"], "pauseAgent")

StopAgent ==
  /\ Quiescent
  /\ Commit([stopAgent(Cur) EXCEPT !.disturbed = "signalled"], "stopAgent")

(* a one-shot operation that pushes its item onto the Work Log *)
oneShotLogged(s, kind) ==
  runWork([s EXCEPT !.oneKind = kind, !.oneWork = NewWork(s.nextId, kind),
                    !.workLog = Append(@, NewWork(s.nextId, kind)),
                    !.nextId = @ + 1, !.disturbed = "signalled"], "one")

(* a one-shot operation constructs its item and calls runWork without a stop predicate *)
oneShot(s, kind) ==
  runWork([s EXCEPT !.oneKind = kind, !.oneWork = NewWork(s.nextId, kind),
                    !.nextId = @ + 1, !.disturbed = "signalled"], "one")

Summarize ==
  /\ pcOne = "idle"
  /\ Quiescent
  /\ nextId <= MaxItems
  /\ Commit(oneShot([Cur EXCEPT !.lifecycle = "running"], "summarize"), "summarize")

(* chat() up to its first await *)
chatEntry(s) ==
  LET s1 == IF s.lifecycle = "running" THEN pauseAgentOn(s) ELSE s
  IN IF s1.lifecycle = "stopped"
       THEN [s1 EXCEPT !.paused = TRUE, !.lifecycle = "pausing"]
       ELSE [s1 EXCEPT !.paused = FALSE]

Chat ==
  /\ pcOne = "idle"
  /\ Quiescent
  /\ nextId <= MaxItems
  /\ Commit(oneShot(chatEntry(Cur), "chat"), "chat")

OneSettles ==
  /\ pcOne = "run"
  /\ Quiescent
  /\ \E e \in Outcomes, h \in HookResults :
       /\ Bounded("one", e)
       /\ Commit(runSettled(Cur, "one", e, h), "oneSettle")

OneBackoffDone ==
  /\ pcOne = "backoff"
  /\ Quiescent
  /\ Commit(backoffDone(Cur, "one"), "oneRetry")

(* runWork returned: await work.conclude() *)
OneRunWorkReturns ==
  /\ pcOne = "settled"
  /\ Commit([runWorkEnd(Cur, "one") EXCEPT !.concludes[oneWork.id] = @ + 1,
                                           !.pcOne = "conclude"], "oneConclude")

(* the exit of a one-shot operation that forgets chat()'s paused flag *)
oneExitNoRestore(s) ==
  LET s1 == IF s.oneKind = "summarize" THEN stopAgent(s) ELSE s
  IN [s1 EXCEPT !.pcOne = "idle", !.oneKind = "none", !.oneWork = NoWork,
                !.paused = FALSE]

(* the last statement of summarize() and of chat() *)
oneExit(s) ==
  LET s1 == IF s.oneKind = "summarize" \/ s.paused THEN stopAgent(s) ELSE s
  IN [s1 EXCEPT !.pcOne = "idle", !.oneKind = "none", !.oneWork = NoWork,
                !.paused = FALSE]

OneConcludeDone ==
  /\ pcOne = "conclude"
  /\ Quiescent
  /\ Commit(oneExit(Cur), "oneDone")

(***************************************************************************)
(* The system                                                              *)
(***************************************************************************)
Init ==
  /\ lifecycle = "idle"
  /\ workLog = << NewWork(1, "start") >>
  /\ lastConclusion = 0
  /\ completedTasks = 0
  /\ customMaxLoops \in 1..MaxLoops
  /\ isAgentThinking = FALSE
  /\ pcRun = "idle"
  /\ work = NoWork
  /\ pcOne = "idle"
  /\ oneKind = "none"
  /\ oneWork = NoWork
  /\ paused = FALSE
  /\ nextId = 2
  /\ tries = [p \in {"run", "one"} |-> 0]
  /\ failed = [p \in {"run", "one"} |-> 0]
  /\ raised = [p \in {"run", "one"} |-> "none"]
  /\ hookSaid = [p \in {"run", "one"} |-> "none"]
  /\ how = [p \in {"run", "one"} |-> "none"]
  /\ concludes = [i \in Ids |-> 0]
  /\ started = << >>
  /\ checkedTask = Unread
  /\ observed = "none"
  /\ sent = FALSE
  /\ disturbed = "calm"
  /\ op = "new"

Next ==
  \/ RunStart
  \/ ReplayDone
  \/ WorkSettles
  \/ BackoffDone
  \/ RunWorkReturns
  \/ ConcludeDone
  \/ PauseAgent
  \/ StopAgent
  \/ Summarize
  \/ Chat
  \/ OneSettles
  \/ OneBackoffDone
  \/ OneRunWorkReturns
  \/ OneConcludeDone

Spec == Init /\ [][Next]_vars

TypeOK ==
  /\ lifecycle \in {"idle", "running", "pausing", "paused", "stopped"}
  /\ pcRun \in {"idle", "replay", "run", "backoff", "settled", "conclude"}
  /\ pcOne \in {"idle", "run", "backoff", "settled", "conclude"}
  /\ lastConclusion \in 0..MaxItems
  /\ nextId \in 1..(MaxItems + 1)

(***************************************************************************)
(* Properties                                                              *)
(***************************************************************************)
Activations == {"run", "one"}

PcOf(p) == IF p = "run" THEN pcRun ELSE pcOne

(* the step is a call of pauseAgent() *)
PauseCalled == op' = "pauseAgent"

(* C1: pauseAgent() on a running agent whose run() is in progress makes the
   lifecycle pausing; a boundary check of run() that reads pausing sets paused
   and run() returns in that step without calling runWork; and a non-empty
   Work Log is left as it is until run() has been called again and has taken
   its head as the item to execute. *)
C1_PauseAtBoundary ==
  [][/\ (PauseCalled /\ lifecycle = "running" /\ pcRun # "idle") => lifecycle' = "pausing"
     /\ observed' = "pausing" =>
          /\ lifecycle' = "paused"
          /\ pcRun' = "idle"
          /\ started' = started
          /\ tries'["run"] = 0
     /\ (pcRun \in {"idle", "replay"} /\ workLog # << >>) =>
          /\ workLog' = workLog
          /\ pcRun' = "run" => work' = Head(workLog)]_vars

(* run() returned at a boundary that read pausing, the first item executed and
   its successor still at the head of the Work Log; no chat() was involved *)
C1_Witness ==
  /\ observed = "pausing"
  /\ lifecycle = "paused"
  /\ pcRun = "idle"
  /\ workLog = << NewWork(2, "next") >>
  /\ started = << NewWork(1, "start") >>

(* C2, as stated: when the first boundary check of a run() invocation reads
   stopped, no run() and no conclude() is invoked, the Work Log is unchanged
   and run() returns. *)
C2_StopDoesNothing ==
  [][(pcRun \in {"idle", "replay"} /\ observed' = "stopped") =>
       /\ pcRun' = "idle"
       /\ started' = started
       /\ concludes' = concludes
       /\ workLog' = workLog]_vars

(* C2, amended: when the first boundary check of a run() invocation reads
   stopped, run() returns with the lifecycle stopped, calls runWork for no
   item, invokes no conclude(), sends no completed message and removes
   nothing from the Work Log, which at most gains the one item that
   re-seeding adds to an empty log; and run() entered in any lifecycle,
   stopped included, forces running when it does not return at once. *)
C2_StopAtFirstBoundary ==
  [][/\ (pcRun \in {"idle", "replay"} /\ observed' = "stopped") =>
          /\ pcRun' = "idle"
          /\ lifecycle' = "stopped"
          /\ started' = started
          /\ concludes' = concludes
          /\ sent' = FALSE
          /\ \/ workLog' = workLog
             \/ workLog = << >> /\ Len(workLog') = 1 /\ workLog'[1].kind = "analyze"
     /\ (pcRun = "idle" /\ pcRun' # "idle") => lifecycle' = "running"]_vars

(* a stop arrived while the stored conclusion was replayed, and run() returned
   at its first boundary with an item in the Work Log *)
C2_Witness ==
  /\ op = "replayed"
  /\ observed = "stopped"
  /\ pcRun = "idle"
  /\ lifecycle = "stopped"
  /\ workLog # << >>

(* C3: when runWork has returned and the lifecycle is not running, the item's
   conclude() is stored, not invoked, and run() returns in that step; the
   stored conclusion has not been invoked while run() is not replaying it;
   the next run() invokes it, once, before it calls runWork for any item; and
   the step that ends the replay empties the slot. *)
C3_DeferredReplay ==
  [][/\ (pcRun = "settled" /\ lifecycle # "running") =>
          /\ lastConclusion' = work.id
          /\ concludes'[work.id] = 0
          /\ pcRun' = "idle"
     /\ (lastConclusion' # 0 /\ pcRun' # "replay") => concludes'[lastConclusion'] = 0
     /\ (pcRun = "idle" /\ pcRun' # "idle" /\ lastConclusion # 0) =>
          /\ pcRun' = "replay"
          /\ lastConclusion' = lastConclusion
          /\ concludes'[lastConclusion] = 1
          /\ started' = started
     /\ pcRun' = "replay" => concludes'[lastConclusion'] = 1
     /\ (pcRun = "replay" /\ pcRun' # "replay") =>
          /\ lastConclusion' = 0
          /\ concludes'[lastConclusion] = 1]_vars

(* the replay has ended: the slot is empty, the item of the first run() is
   concluded once, and run() went on to the next item *)
C3_Witness ==
  /\ op = "replayed"
  /\ lastConclusion = 0
  /\ concludes[1] = 1
  /\ pcRun = "run"
  /\ work.id # 1

(* C4: when work.run() raises a non-retryable error the lifecycle is stopped
   and withRetries returns at once, whatever the hook answered: the attempts
   of that runWork number one more than its retryable errors (one when the
   first error is fatal), and the next step of that activation is the return
   of runWork, not another attempt. *)
C4_FatalShortCircuit ==
  [][\A p \in Activations :
       /\ raised'[p] = "fatal" =>
            /\ lifecycle' = "stopped"
            /\ PcOf(p)' = "settled"
            /\ tries'[p] = failed'[p] + 1
            /\ isAgentThinking' = isAgentThinking
       /\ raised[p] = "fatal" =>
            /\ PcOf(p)' \notin {"run", "backoff", "settled"}
            /\ tries'[p] = 0]_vars

(* the first attempt of a Work Log item raised a fatal error although the
   item's hook asked for a retry *)
C4_Witness ==
  /\ raised["run"] = "fatal"
  /\ hookSaid["run"] = "true"
  /\ tries["run"] = 1
  /\ pcRun = "settled"

(* C5: withRetries returns only after a successful attempt, after a fatal
   error, or because the stop predicate found the lifecycle stopped; when it
   returns after a success that followed N retryable errors, work.run() was
   called N+1 times; and every retryable error is followed by a backoff. *)
C5_RetryUntilSuccess ==
  [][\A p \in Activations :
       /\ PcOf(p)' = "settled" =>
            \/ how'[p] = "ok" /\ raised'[p] = "none" /\ tries'[p] = failed'[p] + 1
            \/ how'[p] = "fatal" /\ raised'[p] = "fatal"
            \/ how'[p] = "skipped" /\ p = "run" /\ lifecycle' = "stopped"
       /\ (raised[p] = "none" /\ raised'[p] = "retryable") => PcOf(p)' = "backoff"
       /\ (PcOf(p) = "backoff" /\ PcOf(p)' = "run") => tries'[p] = tries[p] + 1]_vars

(* a Work Log item succeeded on the attempt that followed MaxFails retryable
   errors *)
C5_Witness ==
  /\ pcRun = "settled"
  /\ how["run"] = "ok"
  /\ failed["run"] = MaxFails
  /\ tries["run"] = MaxFails + 1
(* C6, as stated: when work.run() raised a retryable error and the item's
   hook answered false, the executor does not set the thinking indicator,
   does not wait and does not retry: withRetries returns, the lifecycle is
   not forced to stopped by it, and an item without a hook is retried. *)
C6_ItemRefusesRetry ==
  [][\A p \in Activations :
       /\ (raised[p] = "none" /\ raised'[p] = "retryable" /\ hookSaid'[p] = "false") =>
            /\ PcOf(p)' = "settled"
            /\ how'[p] = "refused"
            /\ isAgentThinking' = isAgentThinking
            /\ tries'[p] = tries[p]
            /\ lifecycle' = lifecycle
       /\ (raised[p] = "none" /\ raised'[p] = "retryable" /\ hookSaid'[p] = "undefined") =>
            PcOf(p)' = "backoff"]_vars

(* the items of the Work Log whose task counts as completed at line 84 *)
Counted(task) == task.status = "completed" /\ task.result # ""

(* C7: the counter changes only in an end-of-iteration check, by one, and
   exactly when the task of the popped item is completed with a non-empty
   result; and a check that finds the counter at or above 2 x customMaxLoops
   leaves the lifecycle stopped and run() returned, with no further call of
   runWork, whatever the Work Log holds. *)
C7_CounterCeiling ==
  [][/\ checkedTask' = Unread => completedTasks' = completedTasks
     /\ checkedTask' # Unread =>
          /\ completedTasks' = completedTasks + (IF Counted(checkedTask') THEN 1 ELSE 0)
          /\ completedTasks' >= 2 * customMaxLoops =>
               /\ lifecycle' = "stopped"
               /\ pcRun' = "idle"
               /\ started' = started]_vars

(* the counter reached the ceiling with this check, and run() returned
   stopped with an item left in the Work Log *)
C7_Witness ==
  /\ Counted(checkedTask)
  /\ completedTasks = 2 * customMaxLoops
  /\ lifecycle = "stopped"
  /\ pcRun = "idle"
  /\ workLog # << >>

(* every item constructed so far is the bootstrap item or the item its next()
   returned: no re-seeding, no one-shot item, no third item *)
ChainOfTwo ==
  /\ nextId = 3
  /\ \A i \in 1..Len(workLog) : workLog[i].kind = "next"
  /\ \A i \in 1..Len(started) : started[i].kind \in {"start", "next"}
  /\ pcOne = "idle"

(* run() has been called and has returned *)
RunReturned == pcRun = "idle" /\ started # << >>

ExecutedBothInOrder ==
  /\ started = << NewWork(1, "start"), NewWork(2, "next") >>
  /\ workLog = << >>

(* C8, as stated: with the bootstrap item's next() returning a second item,
   nothing constructed after it and no pause/stop signal, run() returns
   having called runWork for the first and then the second item, once each,
   and leaves the Work Log empty. *)
C8_ChainedWork ==
  (RunReturned /\ ChainOfTwo /\ disturbed # "signalled") => ExecutedBothInOrder

(* C8, amended: the same, provided also that no work.run() raised a
   non-retryable error. *)
C8_ChainedWorkNoFatal ==
  (RunReturned /\ ChainOfTwo /\ disturbed = "calm") => ExecutedBothInOrder

(* run() returned after the chain of two, undisturbed, and both were concluded *)
C8_Witness ==
  /\ RunReturned
  /\ ChainOfTwo
  /\ disturbed = "calm"
  /\ ExecutedBothInOrder
  /\ concludes[1] = 1
  /\ concludes[2] = 1

(* C9: no item's conclude() is invoked twice; the slot of the deferred
   conclusion changes only by being filled when empty, with an item whose
   conclude() was not invoked, or by being emptied at the end of its replay,
   after its conclude() was invoked. *)
C9_ConcludeOnce ==
  [][/\ \A i \in Ids : concludes'[i] <= 1
     /\ lastConclusion' # lastConclusion =>
          \/ /\ lastConclusion = 0
             /\ concludes'[lastConclusion'] = 0
          \/ /\ lastConclusion' = 0
             /\ pcRun = "replay"
             /\ concludes[lastConclusion] = 1]_vars

(* a second conclusion is pending after the first was stored and replayed *)
C9_Witness ==
  /\ lastConclusion = 2
  /\ concludes[1] = 1
  /\ concludes[2] = 0
  /\ started = << NewWork(1, "start"), NewWork(2, "next") >>
  /\ observed = "pausing"

(* the ids of the started Work Log items increase: they are numbered as
   they are constructed, which is the order in which they are appended *)
StartedInAppendOrder ==
  \A i, j \in 1..Len(started) : i < j => started[i].id < started[j].id

(* C10, as stated: Work Log items start in the order they were appended, no
   item is handed to runWork twice, and no two work items' run() calls are
   in progress at the same time. *)
C10_OrderAndExclusion ==
  /\ StartedInAppendOrder
  /\ ~(pcRun = "run" /\ pcOne = "run")

(* C11, as stated: while an activation waits in a backoff the thinking flag
   is true, and the step in which runWork returns leaves it false. *)
C11_ThinkingIndicator ==
  [][\A p \in Activations :
       /\ PcOf(p)' = "backoff" => isAgentThinking'
       /\ PcOf(p) = "settled" => ~isAgentThinking']_vars

(* the steps of run(): its entry and every continuation of it *)
RunSteps == {"run", "replayed", "settle", "retry", "iterate", "concluded"}

(* C12: a step of run() sends the completed message only when its exit check
   read running with the Work Log empty after re-seeding, and that step
   leaves the lifecycle stopped and run() returned; a step whose boundary
   check read another lifecycle, a step that follows a fatal error or a
   skipped attempt, and a step whose ceiling test succeeded send nothing;
   and only a step of run() sends. *)
C12_GracefulCompletion ==
  [][/\ sent' =>
          /\ op' \in RunSteps
          /\ observed' = "running"
          /\ workLog' = << >>
          /\ lifecycle' = "stopped"
          /\ pcRun' = "idle"
     /\ observed' \in {"pausing", "paused", "stopped", "idle"} => ~sent'
     /\ (pcRun = "settled" /\ how["run"] \in {"fatal", "skipped"}) => ~sent'
     /\ (checkedTask' # Unread /\ completedTasks' >= ScaleFactor * customMaxLoops) => ~sent']_vars

(* the last item was concluded and the iteration that followed found the
   log drained: run() announced completion and stopped the agent *)
C12_Witness ==
  /\ sent
  /\ op = "concluded"
  /\ workLog = << >>
  /\ lifecycle = "stopped"
  /\ pcRun = "idle"

(* C13: run() starts an attempt of work.run() only when the lifecycle is not
   stopped, and when the backoff ends with the lifecycle stopped the stop
   predicate makes withRetries return without another attempt. *)
C13_StopPredicate ==
  [][/\ (pcRun' = "run" /\ pcRun # "run") => lifecycle' # "stopped"
     /\ (pcRun = "backoff" /\ pcRun' # "backoff" /\ lifecycle = "stopped") =>
          /\ pcRun' = "settled"
          /\ how'["run"] = "skipped"
          /\ tries'["run"] = tries["run"]]_vars

(* stopAgent() was called during the backoff, and the attempt was skipped *)
C13_Witness ==
  /\ pcRun = "settled"
  /\ how["run"] = "skipped"
  /\ raised["run"] = "retryable"
  /\ tries["run"] = 1
  /\ lifecycle = "stopped"

(* C14, as stated: a boundary check of run() that reads pausing leaves
   paused, and chat() does not suspend in its first await with the lifecycle
   at a pausing that chat() itself set. *)
C14_PausingTransient ==
  [][/\ observed' = "pausing" => lifecycle' = "paused"
     /\ (op' = "chat" /\ lifecycle # "pausing") => lifecycle' # "pausing"]_vars

(* the continuations of summarize() and chat() after their first await *)
OneContinues == {"oneSettle", "oneRetry", "oneConclude", "oneDone"}

(* the steps of summarize() and chat() *)
OneSteps == {"summarize", "chat"} \cup OneContinues

(* C15: chat() called while the lifecycle is running requests a pause before
   its item starts; chat() called while the lifecycle is stopped attempts its
   item's run(), calls its conclude() once and returns with the lifecycle
   stopped; and chat() called in another lifecycle leaves the lifecycle as
   it is in each of its steps, except the step in which a fatal error
   stops the agent. *)
C15_ChatLifecycle ==
  [][/\ op' = "chat" =>
          /\ pcOne' = "run" /\ tries'["one"] = 1 /\ oneWork'.id = nextId
          /\ lifecycle = "running" => (lifecycle' = "pausing" /\ ~paused')
          /\ lifecycle = "stopped" => paused'
          /\ lifecycle \notin {"running", "stopped"} =>
               (lifecycle' = lifecycle /\ ~paused')
     /\ (op' \in OneContinues /\ oneKind = "chat") =>
          /\ op' = "oneConclude" =>
               (how["one"] \in {"ok", "fatal"} /\ concludes'[oneWork.id] = 1)
          /\ (op' = "oneDone" /\ paused) =>
               (lifecycle' = "stopped" /\ concludes[oneWork.id] = 1 /\ pcOne' = "idle")
          /\ (~paused /\ how'["one"] # "fatal") => lifecycle' = lifecycle]_vars

(* chat() was called on a stopped agent; its item ran and was concluded, and
   the last statement of chat() is about to restore stopped *)
C15_Witness ==
  /\ oneKind = "chat"
  /\ paused
  /\ pcOne = "conclude"
  /\ concludes[oneWork.id] = 1
  /\ lifecycle = "pausing"
  /\ pcRun = "idle"

(* C16: a step of summarize() or chat() leaves the Work Log, the
   completed-task counter, the Deferred Conclusion and the record of the
   items run() executed as they are; the operation constructs one item of its
   own, outside the Work Log, and the only conclude() its steps call is that
   item's, once, before the operation returns; summarize() sets the lifecycle
   running at entry and stopped at exit. *)
C16_OneShotBypass ==
  [][op' \in OneSteps =>
       /\ workLog' = workLog
       /\ completedTasks' = completedTasks
       /\ lastConclusion' = lastConclusion
       /\ started' = started
       /\ op' \in {"summarize", "chat"} =>
            /\ oneWork'.id = nextId
            /\ concludes[nextId] = 0
            /\ \A i \in 1..Len(workLog') : workLog'[i].id # oneWork'.id
            /\ tries'["one"] = 1
       /\ \A i \in Ids : concludes'[i] # concludes[i] =>
            (op' = "oneConclude" /\ i = oneWork.id /\ concludes'[i] = 1)
       /\ op' = "oneDone" => concludes[oneWork.id] = 1
       /\ op' = "summarize" => lifecycle' = "running"
       /\ (op' = "oneDone" /\ oneKind = "summarize") => lifecycle' = "stopped"]_vars

(* summarize() ran and concluded its item while the Work Log still holds the
   bootstrap item and no task has been counted *)
C16_Witness ==
  /\ oneKind = "summarize"
  /\ pcOne = "conclude"
  /\ concludes[oneWork.id] = 1
  /\ workLog = << NewWork(1, "start") >>
  /\ completedTasks = 0
  /\ lifecycle = "running"

(* C17: in every reachable state the Work Log holds at most one item. *)
C17_WorkLogAtMostOne == Len(workLog) <= 1

(* an iteration removed the bootstrap item and appended the item its next()
   returned *)
C17_Witness ==
  /\ op = "concluded"
  /\ workLog = << NewWork(2, "next") >>
  /\ Len(started) = 1

(* C18: a step of run() in which run() returns leaves the lifecycle paused
   or stopped. *)
C18_ExitState ==
  [][(op' \in RunSteps /\ pcRun' = "idle") => lifecycle' \in {"paused", "stopped"}]_vars

(* run() returned at the boundary that follows a concluded item, having read
   a pause request *)
C18_Witness ==
  /\ op = "concluded"
  /\ pcRun = "idle"
  /\ observed = "pausing"
  /\ lifecycle = "paused"
  /\ workLog # << >>

(* the ids of the items in a sequence of items *)
IdsOf(wl) == {wl[i].id : i \in 1..Len(wl)}

(* C19: when runWork returns to run() with the lifecycle stopped, that step
   removes the item from the Work Log, stores its conclusion as the Deferred
   Conclusion without calling conclude(), runs the rest of the iteration (an
   item constructed in the step is the one the Work Log then holds) and
   returns from run(); the next run() replays the stored conclusion before
   it executes anything; and no item is passed to runWork twice. *)
C19_InterruptedConsumed ==
  [][/\ (pcRun = "settled" /\ lifecycle = "stopped") =>
          /\ how["run"] \in {"ok", "fatal", "skipped"}
          /\ work.id \notin IdsOf(workLog')
          /\ lastConclusion' = work.id
          /\ concludes' = concludes
          /\ checkedTask' # Unread
          /\ nextId' \in {nextId, nextId + 1}
          /\ nextId' = nextId + 1 => IdsOf(workLog') = {nextId}
          /\ nextId' = nextId => workLog' = << >>
          /\ started' = started
          /\ pcRun' = "idle"
          /\ lifecycle' = "stopped"
     /\ (op' = "run" /\ lastConclusion # 0) =>
          /\ pcRun' = "replay"
          /\ concludes'[lastConclusion] = concludes[lastConclusion] + 1
          /\ started' = started
     /\ \A i, j \in 1..Len(started') : started'[i].id = started'[j].id => i = j]_vars

(* the bootstrap item ended in a fatal error: it left the Work Log, its
   conclusion is stored and not yet called, and its next() item is queued *)
C19_Witness ==
  /\ op = "iterate"
  /\ disturbed = "fatal"
  /\ lastConclusion = 1
  /\ concludes[1] = 0
  /\ workLog = << NewWork(2, "next") >>
  /\ pcRun = "idle"
  /\ lifecycle = "stopped"

(* the counter has reached the ceiling *)
AtCeiling == completedTasks >= ScaleFactor * customMaxLoops

(* what C20 says of every step of run() but its return: the counter never
   decreases, and with the counter at the ceiling run() reads the lifecycle
   running at entry (after the replay, if there is one) and passes an item
   to runWork in its entry only, so at most one item *)
CeilingSteps ==
  /\ completedTasks' >= completedTasks
  /\ (AtCeiling /\ op' \in RunSteps) =>
       /\ op' = "run" => (lifecycle' = "running" \/ (sent' /\ observed' = "running"))
       /\ Len(started') > Len(started) =>
            (op' \in {"run", "replayed"} /\ Len(started') = Len(started) + 1)
       /\ op' \in {"iterate", "concluded"} => pcRun' \in {"conclude", "idle"}

(* C20, as stated: with the counter at the ceiling every run() returns with
   the lifecycle stopped. *)
C20_CeilingPersists ==
  [][/\ CeilingSteps
     /\ (AtCeiling /\ op' \in RunSteps /\ pcRun' = "idle") => lifecycle' = "stopped"]_vars

(* C20, amended: the counter never decreases; with the counter at the
   ceiling every run() forces the lifecycle running, passes at most one item
   to runWork, and returns with the lifecycle stopped, except that a run()
   which replayed a Deferred Conclusion and reads a pause request at its
   first boundary returns paused, having passed no item to runWork. *)
C20_CeilingPersistsUnlessPaused ==
  [][/\ CeilingSteps
     /\ (AtCeiling /\ op' \in RunSteps /\ pcRun' = "idle") =>
          \/ lifecycle' = "stopped"
          \/ /\ op' = "replayed"
             /\ observed' = "pausing"
             /\ lifecycle' = "paused"
             /\ started' = started]_vars

(* with customMaxLoops 1 the counter stands at 3: a run() called after the
   ceiling of 2 was reached executed one more item, counted it and returned
   with the lifecycle stopped *)
C20_Witness ==
  /\ customMaxLoops = 1
  /\ completedTasks = 3
  /\ op \in {"iterate", "concluded"}
  /\ pcRun = "idle"
  /\ lifecycle = "stopped"

====
